---- MODULE Spec2Model ----
(***************************************************************************)
(* Model of @ourfires/nextjs-gtm: the consent store (ConsentManager of     *)
(* src/src/consent-manager.ts) with the consent cookie, the Google Consent *)
(* Mode dataLayer and the subscriber set; the geo functions of             *)
(* src/src/geo-utils.ts; and the components GTMWithConsent and             *)
(* GDPRGoogleTagManager with their state, renders and effects.             *)
(*                                                                         *)
(* Strings that the code builds and parses (JSON text, percent-encoded     *)
(* cookie values) are sequences of tokens: every punctuation character is  *)
(* a token of its own, a run of letters or digits is one token.            *)
(***************************************************************************)
EXTENDS Integers, Sequences, FiniteSets, TLC

VARIABLES
    hasWindow,       \* typeof window !== "undefined" (client context)
    now,             \* the value Date.now() returns
    documentCookie,  \* document.cookie: sequence of [name, value] entries
    dataLayer,       \* window.dataLayer: [defined, items]
    subscribers,     \* ConsentManager.subscribers: a Set, in insertion order
    handles,         \* unsubscribe closures returned by subscribe so far
    notified,        \* callback invocations made by the last operation
    lastOp,          \* the last operation called, its argument and outcome
    country,         \* isRegulatedRegion: the country argument
    region,          \* isRegulatedRegion: the region argument
    returned,        \* the last read: the function called and its value
    waitForConsent,  \* GTMWithConsent: the waitForConsent prop
    geoAware,        \* GTMWithConsent: the geoAware prop
    shouldWaitForConsent,    \* GTMWithConsent: state
    shouldLoad,              \* GDPRGoogleTagManager: state
    consentModeInitialized,  \* GDPRGoogleTagManager: state
    rendered,        \* what the last render of GDPRGoogleTagManager saw
    pendingEffects,  \* effects of the last render that have not run yet
    consentSeen,     \* where analytics consent has been seen so far
    visible,         \* ConsentBanner: state
    showPreferences, \* ConsentBanner: state
    preferences,     \* ConsentBanner: state
    hook,            \* useConsent: whether it is mounted, and its state
    peer,            \* a second tab that shares the cookies
    lastWrite        \* the write that reached document.cookie last

storeVars == <<hasWindow, now, documentCookie, dataLayer, subscribers, handles,
               notified, lastOp>>
geoVars == <<country, region, returned>>

\* the state a write can change through the subscriber callbacks of
\* GDPRGoogleTagManager and useConsent, and the rest of the component state
gtmNotified == <<shouldLoad, consentSeen, hook, lastWrite>>
bannerVars == <<visible, showPreferences, preferences>>
gtmProps == <<waitForConsent, geoAware, shouldWaitForConsent,
              consentModeInitialized, rendered, pendingEffects>>
gtmFrame == <<gtmProps, bannerVars, peer>>
gtmVars == <<gtmNotified, gtmFrame>>

vars == <<storeVars, geoVars, gtmVars>>

-----------------------------------------------------------------------------
(* Bounds *)

MaxTime == 1      \* Date.now() ranges over 0..MaxTime
MaxEvents == 1    \* at most this many events are pushed to the dataLayer
MaxHandles == 2   \* at most this many subscribe calls

-----------------------------------------------------------------------------
(* Program constants *)

DefaultCookieName == "user_consent"
DefaultCookieExpiry == 365

cookieName == DefaultCookieName
cookieExpiry == DefaultCookieExpiry

-----------------------------------------------------------------------------
(* Values *)

Null == <<>>
Some(v) == <<v>>

Times == 0..MaxTime

\* ConsentState objects a caller can pass
ConsentState ==
    [necessary : BOOLEAN, analytics : BOOLEAN, marketing : BOOLEAN,
     preferences : BOOLEAN, timestamp : Times]

\* the categories a visitor can grant or deny
Categories == {"analytics", "marketing", "preferences"}

\* ConsentState objects a caller passes: the timestamp is an earlier or the
\* current reading of Date.now()
CallerStates == {c \in ConsentState : c.timestamp <= now}

\* ConsentState objects as setConsent builds them at the current time
StoredStates == {c \in ConsentState : c.necessary /\ c.timestamp = now}

\* Callback functions a caller can register; ThrowingCallbacks throw when
\* they are invoked, the others return normally.
Callbacks == {"cbA", "cbThrow"}
ThrowingCallbacks == {"cbThrow"}

-----------------------------------------------------------------------------
(* JSON.stringify / JSON.parse on token sequences *)

Quote == "\""
Punctuation == {"{", "}", ":", ",", Quote, "=", ";", "%"}

BoolToken(b) == IF b THEN "true" ELSE "false"
NumberToken(n) == ToString(n)
NumberTokens == {NumberToken(n) : n \in Times}
NumberOfToken == [t \in NumberTokens |-> CHOOSE n \in Times : NumberToken(n) = t]
TokenNumber(t) == NumberOfToken[t]

\* the properties of a ConsentState object, in the order of the object
\* literals that build it
JSONstringify(o) ==
    <<"{", Quote, "necessary", Quote, ":", BoolToken(o.necessary),
      ",", Quote, "analytics", Quote, ":", BoolToken(o.analytics),
      ",", Quote, "marketing", Quote, ":", BoolToken(o.marketing),
      ",", Quote, "preferences", Quote, ":", BoolToken(o.preferences),
      ",", Quote, "timestamp", Quote, ":", NumberToken(o.timestamp), "}">>

ParseError == [ok |-> FALSE, val |-> <<>>]
ParseOk(v) == [ok |-> TRUE, val |-> v]

ValueTokens == {"true", "false"} \cup NumberTokens
IsValueToken(t) == t \in ValueTokens
TokenValue(t) == t = "true"

\* An object of n members is "{", then n times a quoted key, ":" and a
\* value, with "," between the members, then "}": 6n + 1 tokens, the j-th
\* member at 6j - 4 .. 6j.
MemberAt(toks, j) ==
    LET i == 6 * j - 4
    IN /\ toks[i] = Quote
       /\ toks[i + 1] \notin Punctuation
       /\ toks[i + 2] = Quote
       /\ toks[i + 3] = ":"
       /\ IsValueToken(toks[i + 4])
       /\ toks[i + 5] = (IF i + 5 = Len(toks) THEN "}" ELSE ",")

MemberValue(t) == IF t \in NumberTokens THEN TokenNumber(t) ELSE TokenValue(t)

\* a JSON text that is one literal parses to that value, not to an object
Scalar(v) == [scalar |-> v]

\* The value JSON.parse returns: Null for the literal null, Some(v)
\* otherwise. A repeated key keeps the last value.
JSONparse(toks) ==
    IF Len(toks) = 1
    THEN (IF toks[1] = "null" THEN ParseOk(Null)
          ELSE IF IsValueToken(toks[1])
               THEN ParseOk(Some(Scalar(MemberValue(toks[1]))))
               ELSE ParseError)
    ELSE IF Len(toks) < 2 \/ toks[1] # "{" THEN ParseError
    ELSE IF Len(toks) = 2
         THEN (IF toks[2] = "}" THEN ParseOk(Some(<<>>)) ELSE ParseError)
         ELSE LET n == (Len(toks) - 1) \div 6
              IN IF Len(toks) = 6 * n + 1 /\ \A j \in 1..n : MemberAt(toks, j)
                 THEN ParseOk(Some([k \in {toks[6 * j - 3] : j \in 1..n} |->
                                 LET last == CHOOSE j \in 1..n :
                                                /\ toks[6 * j - 3] = k
                                                /\ \A h \in (j + 1)..n : toks[6 * h - 3] # k
                                 IN MemberValue(toks[6 * last])]))
                 ELSE ParseError

-----------------------------------------------------------------------------
(* encodeURIComponent / decodeURIComponent on token sequences *)

EscapeTable ==
    [t \in Punctuation |->
        CASE t = "{" -> "%7B"
          [] t = "}" -> "%7D"
          [] t = ":" -> "%3A"
          [] t = "," -> "%2C"
          [] t = Quote -> "%22"
          [] t = "=" -> "%3D"
          [] t = ";" -> "%3B"
          [] t = "%" -> "%25"]

EscapeOf(t) == IF t \in Punctuation THEN EscapeTable[t] ELSE t

Escapes == {EscapeTable[t] : t \in Punctuation}
UnescapeTable == [e \in Escapes |-> CHOOSE t \in Punctuation : EscapeTable[t] = e]
Unescape(e) == IF e \in Escapes THEN UnescapeTable[e] ELSE e

encodeURIComponent(s) == [i \in 1..Len(s) |-> EscapeOf(s[i])]

\* a "%" that is not followed by two hexadecimal digits is a URIError
InvalidEscapes == {"%", "%7", "%ZZ"}

decodeURIComponent(s) ==
    IF \E i \in 1..Len(s) : s[i] \in InvalidEscapes
    THEN ParseError
    ELSE ParseOk([i \in 1..Len(s) |-> Unescape(s[i])])

-----------------------------------------------------------------------------
(* document.cookie *)

\* document.cookie = "name=value; expires=<today + days>; path=/; SameSite=Lax"
\* replaces the cookie of that name; an expiry that is not in the future
\* removes it.
RECURSIVE RemoveCookie(_, _)
RemoveCookie(jar, name) ==
    IF jar = <<>> THEN <<>>
    ELSE IF Head(jar).name = name THEN RemoveCookie(Tail(jar), name)
         ELSE <<Head(jar)>> \o RemoveCookie(Tail(jar), name)

AssignCookie(jar, name, value, days) ==
    IF days <= 0 THEN RemoveCookie(jar, name)
    ELSE IF \E i \in 1..Len(jar) : jar[i].name = name
         THEN [i \in 1..Len(jar) |->
                 IF jar[i].name = name THEN [name |-> name, value |-> value]
                 ELSE jar[i]]
         ELSE Append(jar, [name |-> name, value |-> value])

\* cookies.find((c) => c.startsWith(`${name}=`)): index of the entry, or 0
FindCookie(jar, name) ==
    IF \E i \in 1..Len(jar) : jar[i].name = name
    THEN CHOOSE i \in 1..Len(jar) :
            /\ jar[i].name = name
            /\ \A j \in 1..(i - 1) : jar[j].name # name
    ELSE 0

\* consentCookie.split("=")[1]: the text between the first and the second "="
UpToEquals(s) ==
    LET eqs == {i \in 1..Len(s) : s[i] = "="}
    IN IF eqs = {} THEN s
       ELSE SubSeq(s, 1, (CHOOSE i \in eqs : \A j \in eqs : i <= j) - 1)

-----------------------------------------------------------------------------
(* ConsentManager: reads *)

\* a getConsent without the catch: the error leaves the call
getConsent_Uncaught(jar) ==
    IF ~hasWindow THEN Null
    ELSE LET i == FindCookie(jar, cookieName)
         IN IF i = 0 THEN Null
            ELSE LET value == UpToEquals(jar[i].value)
                     decoded == decodeURIComponent(value)
                 IN IF ~decoded.ok THEN Some([error |-> "URIError"])
                    ELSE LET parsed == JSONparse(decoded.val)
                         IN IF parsed.ok THEN parsed.val
                            ELSE Some([error |-> "SyntaxError"])

\* getConsent(): the stored ConsentState, or Null
getConsent(jar) ==
    IF ~hasWindow THEN Null
    ELSE LET i == FindCookie(jar, cookieName)
         IN IF i = 0 THEN Null
            ELSE LET value == UpToEquals(jar[i].value)
                     decoded == decodeURIComponent(value)
                 IN IF ~decoded.ok THEN Null
                    ELSE LET parsed == JSONparse(decoded.val)
                         IN IF parsed.ok THEN parsed.val ELSE Null

\* a hasConsent that is true whenever the consent cookie exists
hasConsent_CookieExists(jar) == hasWindow /\ FindCookie(jar, cookieName) # 0

hasConsent(jar) == getConsent(jar) # Null

\* consent?.analytics === true, and likewise for the other categories
FieldIsTrue(c, k) == c # Null /\ k \in DOMAIN c[1] /\ c[1][k] = TRUE

hasAnalyticsConsent(jar) == FieldIsTrue(getConsent(jar), "analytics")
hasMarketingConsent(jar) == FieldIsTrue(getConsent(jar), "marketing")
hasPreferencesConsent(jar) == FieldIsTrue(getConsent(jar), "preferences")

-----------------------------------------------------------------------------
(* ConsentManager: Google Consent Mode *)

Granted(b) == IF b THEN "granted" ELSE "denied"

\* a push that starts a new array instead of reusing window.dataLayer
Push_NewArray(dl, e) == [defined |-> TRUE, items |-> <<e>>]

\* window.dataLayer = window.dataLayer || []; window.dataLayer.push(e)
Push(dl, e) == [defined |-> TRUE, items |-> Append(dl.items, e)]

\* a mapping that derives the advertising channels from analytics
consentParams_AdFromAnalytics(consent) ==
    [ad_storage              |-> Granted(consent.analytics),
     ad_user_data            |-> Granted(consent.analytics),
     ad_personalization      |-> Granted(consent.analytics),
     analytics_storage       |-> Granted(consent.analytics),
     functionality_storage   |-> Granted(consent.preferences),
     personalization_storage |-> Granted(consent.preferences),
     security_storage        |-> "granted"]

consentParams(consent) ==
    [ad_storage              |-> Granted(consent.marketing),
     ad_user_data            |-> Granted(consent.marketing),
     ad_personalization      |-> Granted(consent.marketing),
     analytics_storage       |-> Granted(consent.analytics),
     functionality_storage   |-> Granted(consent.preferences),
     personalization_storage |-> Granted(consent.preferences),
     security_storage        |-> "granted"]

updateGoogleConsentMode(dl, consent) ==
    IF ~hasWindow THEN dl
    ELSE Push(dl, [event |-> "consent_update", consent |-> consentParams(consent)])

defaultConsentParams ==
    [ad_storage              |-> "denied",
     ad_user_data            |-> "denied",
     ad_personalization      |-> "denied",
     analytics_storage       |-> "denied",
     functionality_storage   |-> "denied",
     personalization_storage |-> "denied",
     security_storage        |-> "granted"]

\* a default signal that is derived from the stored record when there is one
initializeGoogleConsentMode_FromStored(dl) ==
    IF ~hasWindow THEN dl
    ELSE LET stored == getConsent(documentCookie)
         IN Push(dl, [event |-> "consent_default",
                      consent |-> IF stored = Null THEN defaultConsentParams
                                  ELSE consentParams(stored[1])])

initializeGoogleConsentMode(dl) ==
    IF ~hasWindow THEN dl
    ELSE Push(dl, [event |-> "consent_default", consent |-> defaultConsentParams])

-----------------------------------------------------------------------------
(* ConsentManager: setConsent *)

\* what a subscriber callback sees when it is invoked
LastEvent(dl) == IF dl.items = <<>> THEN Null ELSE Some(dl.items[Len(dl.items)])

\* a spread that comes last and so keeps the caller's necessary
finalConsent_KeepNecessary(consent, t) ==
    [consent EXCEPT !.timestamp = t]

\* a record that keeps the caller's timestamp
finalConsent_KeepTimestamp(consent, t) ==
    [consent EXCEPT !.necessary = TRUE]

\* a write that keeps the categories the stored record already grants
finalConsent_MergePrior(consent, t) ==
    LET prior == getConsent(documentCookie)
    IN [necessary |-> TRUE,
        analytics |-> consent.analytics \/ FieldIsTrue(prior, "analytics"),
        marketing |-> consent.marketing \/ FieldIsTrue(prior, "marketing"),
        preferences |-> consent.preferences \/ FieldIsTrue(prior, "preferences"),
        timestamp |-> t]

\* { ...consent, necessary: true, timestamp: Date.now() }
finalConsent(consent, t) ==
    [consent EXCEPT !.necessary = TRUE, !.timestamp = t]

\* The effects of a call: the cookie jar, the dataLayer, the callbacks
\* invoked so far and whether an exception left the call.
Effects(jar, dl) == [cookie |-> jar, dataLayer |-> dl, calls |-> <<>>, threw |-> FALSE]

\* a save that keeps the categories the stored record grants
saveCookie_MergeStored(w, fc) ==
    LET prior == getConsent(w.cookie)
        merged == [fc EXCEPT
                     !.analytics = @ \/ FieldIsTrue(prior, "analytics"),
                     !.marketing = @ \/ FieldIsTrue(prior, "marketing"),
                     !.preferences = @ \/ FieldIsTrue(prior, "preferences")]
    IN [w EXCEPT !.cookie =
          AssignCookie(w.cookie, cookieName,
                       encodeURIComponent(JSONstringify(merged)), cookieExpiry)]

saveCookie(w, fc) ==
    [w EXCEPT !.cookie =
        AssignCookie(w.cookie, cookieName,
                     encodeURIComponent(JSONstringify(fc)), cookieExpiry)]

pushUpdate(w, fc) ==
    [w EXCEPT !.dataLayer = updateGoogleConsentMode(w.dataLayer, fc)]

\* this.subscribers.forEach((callback) => callback(finalConsent)): callbacks
\* run in insertion order; an exception thrown by one ends the iteration and
\* leaves setConsent.
FirstThrowing(subs) ==
    IF \E i \in 1..Len(subs) : subs[i] \in ThrowingCallbacks
    THEN CHOOSE i \in 1..Len(subs) :
            /\ subs[i] \in ThrowingCallbacks
            /\ \A j \in 1..(i - 1) : subs[j] \notin ThrowingCallbacks
    ELSE 0

Invoked(subs) ==
    IF FirstThrowing(subs) = 0 THEN subs ELSE SubSeq(subs, 1, FirstThrowing(subs))

notifySubscribers(w, subs, fc) ==
    LET seen == getConsent(w.cookie)
        event == LastEvent(w.dataLayer)
        n == Len(Invoked(subs))
    IN [w EXCEPT
          !.calls = [i \in 1..n |->
                       [callback |-> subs[i],
                        consent |-> fc,
                        seenConsent |-> seen,
                        seenEvent |-> event]],
          !.threw = FirstThrowing(subs) # 0]

\* a setConsent that notifies the subscribers before it saves and signals
setConsent_NotifyFirst(w, subs, consent, t) ==
    IF ~hasWindow THEN w
    ELSE LET fc == finalConsent(consent, t)
         IN pushUpdate(saveCookie(notifySubscribers(w, subs, fc), fc), fc)

\* a setConsent without the window check
setConsent_Unguarded(w, subs, consent, t) ==
    LET fc == finalConsent(consent, t)
    IN notifySubscribers(pushUpdate(saveCookie(w, fc), fc), subs, fc)

setConsent(w, subs, consent, t) ==
    IF ~hasWindow THEN w
    ELSE LET fc == finalConsent(consent, t)
         IN notifySubscribers(pushUpdate(saveCookie(w, fc), fc), subs, fc)

\* an acceptAll that leaves marketing off
allGranted_WithoutMarketing(t) ==
    [necessary |-> TRUE, analytics |-> TRUE, marketing |-> FALSE,
     preferences |-> TRUE, timestamp |-> t]

allGranted(t) ==
    [necessary |-> TRUE, analytics |-> TRUE, marketing |-> TRUE,
     preferences |-> TRUE, timestamp |-> t]

\* a rejectAll that leaves preferences on
allDenied_KeepPreferences(t) ==
    [necessary |-> TRUE, analytics |-> FALSE, marketing |-> FALSE,
     preferences |-> TRUE, timestamp |-> t]

allDenied(t) ==
    [necessary |-> TRUE, analytics |-> FALSE, marketing |-> FALSE,
     preferences |-> FALSE, timestamp |-> t]

acceptAll(w, subs, t) == setConsent(w, subs, allGranted(t), t)
rejectAll(w, subs, t) == setConsent(w, subs, allDenied(t), t)

-----------------------------------------------------------------------------
(* ConsentManager: subscribe *)

\* this.subscribers.add(callback): a Set holds a value once
subscribe(subs, callback) ==
    IF \E i \in 1..Len(subs) : subs[i] = callback THEN subs
    ELSE Append(subs, callback)

\* this.subscribers.delete(callback)
unsubscribe(subs, callback) == SelectSeq(subs, LAMBDA c : c # callback)

-----------------------------------------------------------------------------
(* geo-utils *)

GeoCookieName == "geo-needs-consent"

\* a check that asks for consent whatever the cookie says
checkGeoConsent_AlwaysNeeded(jar) == TRUE

\* checkGeoConsent(): document exists exactly where window does
checkGeoConsent(jar) ==
    IF ~hasWindow THEN TRUE
    ELSE LET i == FindCookie(jar, GeoCookieName)
         IN IF i = 0 THEN TRUE
            ELSE UpToEquals(jar[i].value) = <<"1">>

REGULATED_COUNTRIES ==
    [GDPR   |-> <<"AT", "BE", "BG", "HR", "CY", "CZ", "DK", "EE", "FI", "FR",
                  "DE", "GR", "HU", "IE", "IT", "LV", "LT", "LU", "MT", "NL",
                  "PL", "PT", "RO", "SK", "SI", "ES", "SE", "GB">>,
     LGPD   |-> <<"BR">>,
     PIPEDA |-> <<"CA">>,
     POPIA  |-> <<"ZA">>]

ALL_REGULATED_COUNTRIES ==
    REGULATED_COUNTRIES.GDPR \o REGULATED_COUNTRIES.LGPD
        \o REGULATED_COUNTRIES.PIPEDA \o REGULATED_COUNTRIES.POPIA

\* Object.values(REGULATED_REGIONS)
REGULATED_REGIONS ==
    <<[country |-> "US", regions |-> <<"CA">>]>>

\* Array.prototype.includes
Includes(array, x) == \E i \in 1..Len(array) : array[i] = x

\* !country: undefined or the empty string
Falsy(s) == s = Null \/ s = Some("")

\* a region rule that applies to the whole country
isRegulatedRegion_CountryOnly(c, r) ==
    IF Falsy(c) THEN TRUE
    ELSE IF Includes(ALL_REGULATED_COUNTRIES, c[1]) THEN TRUE
    ELSE \E i \in 1..Len(REGULATED_REGIONS) :
            REGULATED_REGIONS[i].country = c[1]

isRegulatedRegion(c, r) ==
    IF Falsy(c) THEN TRUE
    ELSE IF Includes(ALL_REGULATED_COUNTRIES, c[1]) THEN TRUE
    ELSE \E i \in 1..Len(REGULATED_REGIONS) :
            /\ REGULATED_REGIONS[i].country = c[1]
            /\ Includes(REGULATED_REGIONS[i].regions,
                        IF Falsy(r) THEN "" ELSE r[1])

-----------------------------------------------------------------------------
(* State machine *)

\* hadConsent, hadAnalytics: hasConsent() and hasAnalyticsConsent() before
\* the call
Op(name, arg, threw) ==
    [op |-> name, arg |-> arg, threw |-> threw,
     hadConsent |-> hasConsent(documentCookie),
     hadAnalytics |-> hasAnalyticsConsent(documentCookie)]

\* the value a read returned: a ConsentState or Null for getConsent, a
\* boolean for the other reads
Returned(name, consent, result) ==
    [op |-> name, consent |-> consent, result |-> result]

NoneReturned == Returned("none", Null, FALSE)

\* window.dataLayer when the page has loaded: not yet defined, or already
\* created by the page with an event of its own
InitialDataLayers ==
    {[defined |-> FALSE, items |-> <<>>],
     [defined |-> TRUE, items |-> <<[event |-> "gtm.js"]>>]}

\* no component is mounted
NotRendered ==
    [mounted |-> FALSE, waitForConsent |-> TRUE, shouldLoad |-> FALSE,
     consentModeInitialized |-> FALSE, alwaysWaited |-> TRUE]

NothingSeen == [atEffect |-> FALSE, notified |-> FALSE, inStore |-> FALSE]

\* a banner whose analytics toggle starts on
initialPreferences_AnalyticsOn(t) ==
    [necessary |-> TRUE, analytics |-> TRUE, marketing |-> FALSE,
     preferences |-> FALSE, timestamp |-> t]

\* useState<ConsentState>({ necessary: true, analytics: false, marketing:
\* false, preferences: false, timestamp: Date.now() })
initialPreferences(t) ==
    [necessary |-> TRUE, analytics |-> FALSE, marketing |-> FALSE,
     preferences |-> FALSE, timestamp |-> t]

\* useConsent is not called by any component yet (useState(null)); the
\* second tab has no setConsent call under way and its window has a
\* dataLayer of its own
NotMounted ==
    /\ waitForConsent = TRUE
    /\ geoAware = FALSE
    /\ shouldWaitForConsent = TRUE
    /\ shouldLoad = FALSE
    /\ consentModeInitialized = FALSE
    /\ rendered = NotRendered
    /\ pendingEffects = {}
    /\ consentSeen = NothingSeen
    /\ visible = FALSE
    /\ showPreferences = FALSE
    /\ preferences = initialPreferences(0)
    /\ hook = [mounted |-> FALSE, subscribed |-> FALSE, consent |-> Null]
    /\ peer = [pc |-> "idle", consent |-> Null, events |-> 0]
    /\ lastWrite = Null

Init ==
    /\ hasWindow \in BOOLEAN
    /\ now = 0
    /\ documentCookie = <<>>
    /\ dataLayer \in InitialDataLayers
    /\ subscribers = <<>>
    /\ handles = <<>>
    /\ notified = <<>>
    /\ lastOp = [op |-> "new", arg |-> Null, threw |-> FALSE,
                 hadConsent |-> FALSE, hadAnalytics |-> FALSE]
    /\ country = Null
    /\ region = Null
    /\ returned = NoneReturned
    /\ NotMounted

IsConsentEvent(e) == e.event \in {"consent_update", "consent_default"}
ConsentEvents(dl) == SelectSeq(dl.items, IsConsentEvent)

\* the callers push at most MaxEvents events, next to the one event a
\* mounted GDPRGoogleTagManager pushes
ComponentEvents == IF consentModeInitialized THEN 1 ELSE 0

CanPush ==
    ~hasWindow \/ Len(ConsentEvents(dataLayer)) < MaxEvents + ComponentEvents

\* The callback GDPRGoogleTagManager subscribes: if (consent.analytics)
\* setShouldLoad(true)
GTMCallback == "cbGTM"

GTMGranted(calls) ==
    \E j \in 1..Len(calls) :
        calls[j].callback = GTMCallback /\ calls[j].consent.analytics

\* a callback that sets shouldLoad to the analytics of the record
shouldLoadAfter_Follows(current, calls) ==
    IF \E j \in 1..Len(calls) : calls[j].callback = GTMCallback
    THEN GTMGranted(calls) ELSE current

\* shouldLoad after the callback of GDPRGoogleTagManager was called (or was
\* not): if (consent.analytics) setShouldLoad(true)
shouldLoadAfter(current, calls) == current \/ GTMGranted(calls)

\* The callback useConsent subscribes: setConsent(newConsent)
HookCallback == "cbHook"

LastCallTo(calls, callback) ==
    LET js == {j \in 1..Len(calls) : calls[j].callback = callback}
    IN IF js = {} THEN Null
       ELSE Some(calls[CHOOSE j \in js : \A h \in js : h <= j].consent)

\* a write made by a tab: the record the caller passed and the clock
\* reading of the call
Write(tab, consent, t) ==
    [tab |-> tab, analytics |-> consent.analytics,
     marketing |-> consent.marketing, preferences |-> consent.preferences,
     time |-> t]

Apply(w, consent) ==
    /\ documentCookie' = w.cookie
    /\ hook' = (IF LastCallTo(w.calls, HookCallback) = Null THEN hook
               ELSE [hook EXCEPT !.consent = LastCallTo(w.calls, HookCallback)])
    /\ lastWrite' = (IF hasWindow THEN Some(Write("page", consent, now))
                    ELSE lastWrite)
    /\ dataLayer' = w.dataLayer
    /\ notified' = w.calls
    /\ shouldLoad' = shouldLoadAfter(shouldLoad, w.calls)
    /\ consentSeen' =
          IF rendered.mounted
          THEN [consentSeen EXCEPT
                  !.notified = @ \/ GTMGranted(w.calls),
                  !.inStore = @ \/ hasAnalyticsConsent(w.cookie)]
          ELSE consentSeen

\* The clock advances between calls; a call is synchronous and reads
\* Date.now() at the time it is invoked.
Tick ==
    /\ now < MaxTime
    /\ now' = now + 1
    /\ notified' = <<>>
    /\ lastOp' = Op("tick", Null, FALSE)
    /\ UNCHANGED <<hasWindow, documentCookie, dataLayer, subscribers, handles>>
    /\ returned' = NoneReturned
    /\ UNCHANGED <<country, region, gtmVars>>

\* The page is loaded again: a new window and a new ConsentManager, the
\* cookies stay.
Reload ==
    /\ hasWindow
    /\ dataLayer' \in InitialDataLayers
    /\ subscribers' = <<>>
    /\ handles' = <<>>
    /\ notified' = <<>>
    /\ lastOp' = Op("new", Null, FALSE)
    /\ UNCHANGED <<hasWindow, now, documentCookie>>
    /\ returned' = NoneReturned
    /\ UNCHANGED <<country, region, gtmVars>>

SetConsent(consent) ==
    /\ CanPush
    /\ LET w == setConsent(Effects(documentCookie, dataLayer), subscribers,
                           consent, now)
       IN /\ Apply(w, consent)
          /\ lastOp' = Op("setConsent", Some(consent), w.threw)
    /\ UNCHANGED <<hasWindow, now, subscribers, handles>>
    /\ returned' = NoneReturned
    /\ UNCHANGED <<country, region, gtmFrame>>

AcceptAll ==
    /\ CanPush
    /\ LET w == acceptAll(Effects(documentCookie, dataLayer), subscribers, now)
       IN /\ Apply(w, allGranted(now))
          /\ lastOp' = Op("acceptAll", Null, w.threw)
    /\ UNCHANGED <<hasWindow, now, subscribers, handles>>
    /\ returned' = NoneReturned
    /\ UNCHANGED <<country, region, gtmFrame>>

RejectAll ==
    /\ CanPush
    /\ LET w == rejectAll(Effects(documentCookie, dataLayer), subscribers, now)
       IN /\ Apply(w, allDenied(now))
          /\ lastOp' = Op("rejectAll", Null, w.threw)
    /\ UNCHANGED <<hasWindow, now, subscribers, handles>>
    /\ returned' = NoneReturned
    /\ UNCHANGED <<country, region, gtmFrame>>

Subscribe(callback) ==
    /\ Len(handles) < MaxHandles
    /\ subscribers' = subscribe(subscribers, callback)
    /\ handles' = Append(handles, [callback |-> callback, invoked |-> FALSE])
    /\ notified' = <<>>
    /\ lastOp' = Op("subscribe", Null, FALSE)
    /\ UNCHANGED <<hasWindow, now, documentCookie, dataLayer>>
    /\ returned' = NoneReturned
    /\ UNCHANGED <<country, region, gtmVars>>

\* calling the closure returned by the i-th subscribe call
Unsubscribe(i) ==
    /\ subscribers' = unsubscribe(subscribers, handles[i].callback)
    /\ handles' = [handles EXCEPT ![i].invoked = TRUE]
    /\ notified' = <<>>
    /\ lastOp' = Op("unsubscribe", Null, FALSE)
    /\ UNCHANGED <<hasWindow, now, documentCookie, dataLayer>>
    /\ returned' = NoneReturned
    /\ UNCHANGED <<country, region, gtmVars>>

\* an updateGoogleConsentMode that also saves the record it signals
UpdateGoogleConsentMode_Persisting(consent) ==
    /\ CanPush
    /\ dataLayer' = updateGoogleConsentMode(dataLayer, consent)
    /\ documentCookie' =
          (IF hasWindow
           THEN saveCookie(Effects(documentCookie, dataLayer), consent).cookie
           ELSE documentCookie)
    /\ notified' = <<>>
    /\ lastOp' = Op("updateGoogleConsentMode", Some(consent), FALSE)
    /\ UNCHANGED <<hasWindow, now, subscribers, handles>>
    /\ returned' = NoneReturned
    /\ UNCHANGED <<country, region, gtmVars>>

UpdateGoogleConsentMode(consent) ==
    /\ CanPush
    /\ dataLayer' = updateGoogleConsentMode(dataLayer, consent)
    /\ notified' = <<>>
    /\ lastOp' = Op("updateGoogleConsentMode", Some(consent), FALSE)
    /\ UNCHANGED <<hasWindow, now, documentCookie, subscribers, handles>>
    /\ returned' = NoneReturned
    /\ UNCHANGED <<country, region, gtmVars>>

InitializeGoogleConsentMode ==
    /\ CanPush
    /\ dataLayer' = initializeGoogleConsentMode(dataLayer)
    /\ notified' = <<>>
    /\ lastOp' = Op("initializeGoogleConsentMode", Null, FALSE)
    /\ UNCHANGED <<hasWindow, now, documentCookie, subscribers, handles>>
    /\ returned' = NoneReturned
    /\ UNCHANGED <<country, region, gtmVars>>

Next ==
    \/ Tick
    \/ Reload
    \/ \E consent \in CallerStates : SetConsent(consent)
    \/ AcceptAll
    \/ RejectAll
    \/ \E callback \in Callbacks : Subscribe(callback)
    \/ \E i \in 1..Len(handles) : Unsubscribe(i)
    \/ \E consent \in StoredStates : UpdateGoogleConsentMode(consent)
    \/ InitializeGoogleConsentMode

Spec == Init /\ [][Next]_vars

\* The store without subscribers: writes, signals, the clock and reloads
NextStore ==
    \/ Tick
    \/ Reload
    \/ \E consent \in CallerStates : SetConsent(consent)
    \/ AcceptAll
    \/ RejectAll
    \/ \E consent \in StoredStates : UpdateGoogleConsentMode(consent)
    \/ InitializeGoogleConsentMode

SpecStore == Init /\ [][NextStore]_vars

\* Writes and subscriptions on one page at one clock reading
NextSubscribers ==
    \/ \E consent \in CallerStates : SetConsent(consent)
    \/ AcceptAll
    \/ RejectAll
    \/ \E callback \in Callbacks : Subscribe(callback)
    \/ \E i \in 1..Len(handles) : Unsubscribe(i)

SpecSubscribers == Init /\ [][NextSubscribers]_vars

\* Reads
GetConsent ==
    /\ returned' = Returned("getConsent", getConsent(documentCookie), FALSE)
    /\ UNCHANGED <<storeVars, country, region, gtmVars>>

HasConsent ==
    /\ returned' = Returned("hasConsent", Null, hasConsent(documentCookie))
    /\ UNCHANGED <<storeVars, country, region, gtmVars>>

HasAnalyticsConsent ==
    /\ returned' = Returned("hasAnalyticsConsent", Null,
                            hasAnalyticsConsent(documentCookie))
    /\ UNCHANGED <<storeVars, country, region, gtmVars>>

HasMarketingConsent ==
    /\ returned' = Returned("hasMarketingConsent", Null,
                            hasMarketingConsent(documentCookie))
    /\ UNCHANGED <<storeVars, country, region, gtmVars>>

HasPreferencesConsent ==
    /\ returned' = Returned("hasPreferencesConsent", Null,
                            hasPreferencesConsent(documentCookie))
    /\ UNCHANGED <<storeVars, country, region, gtmVars>>

\* Cookies the browser can hold when the page loads. The consent cookie may
\* have been written by an earlier visit, cut short, or edited: its value is
\* any text.
SampleRecord ==
    [necessary |-> TRUE, analytics |-> TRUE, marketing |-> FALSE,
     preferences |-> TRUE, timestamp |-> 0]

SampleValue == encodeURIComponent(JSONstringify(SampleRecord))

\* the empty value and every proper prefix of a stored value
Truncations == {SubSeq(SampleValue, 1, k) : k \in 0..(Len(SampleValue) - 1)}

\* values that decodeURIComponent or JSON.parse rejects
MalformedValues ==
    Truncations
    \cup {Append(SubSeq(SampleValue, 1, Len(SampleValue) - 1), "%7"),
          <<"%ZZ">>, <<"undefined">>}

\* values that decode and parse: a stored value, the same text not
\* percent-encoded, the same followed by "=" and more text, an empty
\* object and JSON literals
WellFormedValues ==
    {SampleValue, JSONstringify(SampleRecord), SampleValue \o <<"=", "x">>,
     <<"%7B", "%7D">>, <<"true">>, <<"null">>}

OtherCookie == [name |-> "geo-needs-consent", value |-> <<"1">>]

InitialCookies ==
    {<<>>, <<OtherCookie>>}
    \cup {<<[name |-> cookieName, value |-> v]>> :
             v \in MalformedValues \cup WellFormedValues}
    \cup {<<OtherCookie, [name |-> cookieName, value |-> v]>> :
             v \in {<<>>, SampleValue, <<"%ZZ">>}}

InitCookie ==
    /\ hasWindow \in BOOLEAN
    /\ now = 0
    /\ documentCookie \in (IF hasWindow THEN InitialCookies ELSE {<<>>})
    /\ dataLayer \in InitialDataLayers
    /\ subscribers = <<>>
    /\ handles = <<>>
    /\ notified = <<>>
    /\ lastOp = [op |-> "new", arg |-> Null, threw |-> FALSE,
                 hadConsent |-> FALSE, hadAnalytics |-> FALSE]
    /\ country = Null
    /\ region = Null
    /\ returned = NoneReturned
    /\ NotMounted

\* Reads and writes on a page that loads with any cookie
NextCookie ==
    \/ GetConsent
    \/ HasConsent
    \/ HasAnalyticsConsent
    \/ HasMarketingConsent
    \/ HasPreferencesConsent
    \/ AcceptAll
    \/ RejectAll
    \/ \E callback \in Callbacks : Subscribe(callback)

SpecCookie == InitCookie /\ [][NextCookie]_vars

\* The module is evaluated outside a browser (server-side render): there is
\* no window, no document and no dataLayer.
InitServer ==
    /\ Init
    /\ ~hasWindow
    /\ ~dataLayer.defined

NextServer ==
    \/ Tick
    \/ GetConsent
    \/ HasConsent
    \/ \E consent \in CallerStates : SetConsent(consent)
    \/ AcceptAll
    \/ RejectAll
    \/ \E callback \in Callbacks : Subscribe(callback)
    \/ \E i \in 1..Len(handles) : Unsubscribe(i)
    \/ \E consent \in StoredStates : UpdateGoogleConsentMode(consent)
    \/ InitializeGoogleConsentMode

SpecServer == InitServer /\ [][NextServer]_vars

\* geo-utils: the arguments of isRegulatedRegion and the cookie
\* checkGeoConsent reads
CountryInputs ==
    {Null} \cup {Some(c) : c \in {"", "US", "ZZ", "de", "XK"}}
    \cup {Some(ALL_REGULATED_COUNTRIES[i]) : i \in 1..Len(ALL_REGULATED_COUNTRIES)}

RegionInputs == {Null} \cup {Some(r) : r \in {"", "CA", "TX", "ca"}}

GeoSignals == {<<"1">>, <<"0">>, <<>>, <<"2">>, <<"true">>, <<"false">>}

GeoCookies ==
    {<<>>, <<[name |-> cookieName, value |-> SampleValue]>>}
    \cup {<<[name |-> GeoCookieName, value |-> v]>> : v \in GeoSignals}
    \cup {<<[name |-> cookieName, value |-> SampleValue],
            [name |-> GeoCookieName, value |-> v]>> : v \in {<<"1">>, <<"0">>}}

InitGeo ==
    /\ hasWindow \in BOOLEAN
    /\ now = 0
    /\ documentCookie \in (IF hasWindow THEN GeoCookies ELSE {<<>>})
    /\ dataLayer = [defined |-> FALSE, items |-> <<>>]
    /\ subscribers = <<>>
    /\ handles = <<>>
    /\ notified = <<>>
    /\ lastOp = [op |-> "new", arg |-> Null, threw |-> FALSE,
                 hadConsent |-> FALSE, hadAnalytics |-> FALSE]
    /\ country \in CountryInputs
    /\ region \in RegionInputs
    /\ returned = NoneReturned
    /\ NotMounted

IsRegulatedRegion ==
    /\ returned' = Returned("isRegulatedRegion", Null,
                            isRegulatedRegion(country, region))
    /\ UNCHANGED <<storeVars, country, region, gtmVars>>

CheckGeoConsent ==
    /\ returned' = Returned("checkGeoConsent", Null,
                            checkGeoConsent(documentCookie))
    /\ UNCHANGED <<storeVars, country, region, gtmVars>>

NextGeo ==
    \/ IsRegulatedRegion
    \/ CheckGeoConsent

SpecGeo == InitGeo /\ [][NextGeo]_vars

\* A second tab of the same site runs setConsent of its own ConsentManager:
\* the tabs share document.cookie, each has its own window, dataLayer and
\* subscribers. The tabs run at the same time, so the statements of the
\* peer's call interleave with whole calls of the page: finalConsent is
\* built (lines 54-58), document.cookie is assigned (lines 60-65), then the
\* peer's own dataLayer and subscribers are served (lines 67-71).
PeerSetConsent(consent) ==
    /\ hasWindow
    /\ peer.pc = "idle"
    /\ peer.events < MaxEvents
    /\ peer' = [peer EXCEPT !.pc = "save",
                            !.consent = Some(finalConsent(consent, now))]
    /\ returned' = NoneReturned
    /\ UNCHANGED <<storeVars, country, region, gtmNotified, gtmProps,
                   bannerVars>>

PeerSaveCookie ==
    /\ peer.pc = "save"
    /\ documentCookie' =
          saveCookie(Effects(documentCookie, dataLayer), peer.consent[1]).cookie
    /\ lastWrite' = Some(Write("peer", peer.consent[1],
                               peer.consent[1].timestamp))
    /\ peer' = [peer EXCEPT !.pc = "signal"]
    /\ returned' = NoneReturned
    /\ UNCHANGED <<hasWindow, now, dataLayer, subscribers, handles, notified,
                   lastOp, country, region, shouldLoad, consentSeen, hook,
                   gtmProps, bannerVars>>

PeerSignal ==
    /\ peer.pc = "signal"
    /\ peer' = [pc |-> "idle", consent |-> Null, events |-> peer.events + 1]
    /\ returned' = NoneReturned
    /\ UNCHANGED <<storeVars, country, region, gtmNotified, gtmProps,
                   bannerVars>>

\* getConsent() of the peer's manager: same cookie name, same document.cookie
PeerGetConsent ==
    /\ hasWindow
    /\ returned' = Returned("peer.getConsent", getConsent(documentCookie), FALSE)
    /\ UNCHANGED <<storeVars, country, region, gtmVars>>

InitTabs ==
    /\ Init
    /\ hasWindow

\* the records the two tabs write: neither grants all that the other does
TabInputs ==
    {SampleRecord,
     [necessary |-> FALSE, analytics |-> FALSE, marketing |-> TRUE,
      preferences |-> FALSE, timestamp |-> 0]}

NextTabs ==
    \/ Tick
    \/ GetConsent
    \/ \E consent \in TabInputs : SetConsent(consent)
    \/ \E consent \in TabInputs : PeerSetConsent(consent)
    \/ PeerSaveCookie
    \/ PeerSignal
    \/ PeerGetConsent

SpecTabs == InitTabs /\ [][NextTabs]_vars

\* useConsent(consentManager) in a component of the page.
\* currentConsent?.analytics: the field of the stored object, if it has one
FieldOf(c, k) == IF c # Null /\ k \in DOMAIN c[1] THEN Some(c[1][k]) ELSE Null

\* an updateConsent written with || in place of ??
updateConsent_Or(jar, partialConsent, t) ==
    LET currentConsent == getConsent(jar)
        OrElse(a, b) == IF a # Null /\ a[1] = TRUE THEN a ELSE b
        Pick(k) == OrElse(OrElse(FieldOf(Some(partialConsent), k),
                                 FieldOf(currentConsent, k)),
                          Some(FALSE))[1]
    IN [necessary |-> TRUE,
        analytics |-> Pick("analytics"),
        marketing |-> Pick("marketing"),
        preferences |-> Pick("preferences"),
        timestamp |-> t]

\* the newConsent that updateConsent(partialConsent) passes to setConsent
updateConsent(jar, partialConsent, t) ==
    LET currentConsent == getConsent(jar)
        \* a ?? b
        Coalesce(a, b) == IF a # Null THEN a ELSE b
        Pick(k) == Coalesce(Coalesce(FieldOf(Some(partialConsent), k),
                                     FieldOf(currentConsent, k)),
                            Some(FALSE))[1]
    IN [necessary |-> TRUE,
        analytics |-> Pick("analytics"),
        marketing |-> Pick("marketing"),
        preferences |-> Pick("preferences"),
        timestamp |-> t]

\* what the hook returns for a value of its state
useConsentReturn(consent) ==
    [consent |-> consent,
     hasConsent |-> consent # Null,
     hasAnalyticsConsent |-> FieldIsTrue(consent, "analytics"),
     hasMarketingConsent |-> FieldIsTrue(consent, "marketing"),
     hasPreferencesConsent |-> FieldIsTrue(consent, "preferences")]

\* the component that calls useConsent is rendered for the first time
MountHook ==
    /\ hasWindow
    /\ ~hook.mounted
    /\ hook' = [mounted |-> TRUE, subscribed |-> FALSE, consent |-> Null]
    /\ notified' = <<>>
    /\ lastOp' = Op("mountHook", Null, FALSE)
    /\ returned' = NoneReturned
    /\ UNCHANGED <<hasWindow, now, documentCookie, dataLayer, subscribers,
                   handles, country, region, shouldLoad, consentSeen,
                   lastWrite, gtmFrame>>

\* the effect of useConsent: setConsent(consentManager.getConsent()) and
\* the subscription
RunHookEffect ==
    /\ hook.mounted /\ ~hook.subscribed
    /\ hook' = [hook EXCEPT !.subscribed = TRUE,
                            !.consent = getConsent(documentCookie)]
    /\ subscribers' = subscribe(subscribers, HookCallback)
    /\ notified' = <<>>
    /\ lastOp' = Op("effect", Some("useConsent"), FALSE)
    /\ returned' = NoneReturned
    /\ UNCHANGED <<hasWindow, now, documentCookie, dataLayer, handles,
                   country, region, shouldLoad, consentSeen, lastWrite,
                   gtmFrame>>

\* Partial<ConsentState>: any of the fields may be missing
PartialConsents ==
    {<<>>,
     [analytics |-> FALSE],
     [analytics |-> TRUE],
     [marketing |-> TRUE],
     [marketing |-> FALSE, preferences |-> TRUE],
     [analytics |-> FALSE, marketing |-> FALSE, preferences |-> FALSE],
     [necessary |-> FALSE, preferences |-> FALSE]}

UpdateConsent(partialConsent) ==
    /\ hook.mounted
    /\ CanPush
    /\ LET newConsent == updateConsent(documentCookie, partialConsent, now)
           w == setConsent(Effects(documentCookie, dataLayer), subscribers,
                           newConsent, now)
       IN /\ Apply(w, newConsent)
          /\ lastOp' = Op("updateConsent", Some(partialConsent), w.threw)
    /\ UNCHANGED <<hasWindow, now, subscribers, handles>>
    /\ returned' = NoneReturned
    /\ UNCHANGED <<country, region, gtmFrame>>

\* cookies when the page loads: none, a stored record, an empty object,
\* a value that does not decode
InitHook ==
    /\ hasWindow = TRUE
    /\ now = 0
    /\ documentCookie \in
           {<<>>}
           \cup {<<[name |-> cookieName, value |-> v]>> :
                    v \in {SampleValue, <<"%7B", "%7D">>, <<"%ZZ">>}}
    /\ dataLayer = [defined |-> FALSE, items |-> <<>>]
    /\ subscribers = <<>>
    /\ handles = <<>>
    /\ notified = <<>>
    /\ lastOp = [op |-> "new", arg |-> Null, threw |-> FALSE,
                 hadConsent |-> FALSE, hadAnalytics |-> FALSE]
    /\ country = Null
    /\ region = Null
    /\ returned = NoneReturned
    /\ NotMounted

NextHook ==
    \/ Tick
    \/ MountHook
    \/ RunHookEffect
    \/ \E partialConsent \in PartialConsents : UpdateConsent(partialConsent)
    \/ SetConsent(SampleRecord)
    \/ AcceptAll
    \/ RejectAll
    \/ \E callback \in ThrowingCallbacks : Subscribe(callback)

SpecHook == InitHook /\ [][NextHook]_vars

\* Every operation of the store, reads included, on one page
NextFrame ==
    \/ GetConsent
    \/ HasConsent
    \/ HasAnalyticsConsent
    \/ HasMarketingConsent
    \/ HasPreferencesConsent
    \/ SetConsent(SampleRecord)
    \/ AcceptAll
    \/ RejectAll
    \/ Subscribe("cbA")
    \/ \E i \in 1..Len(handles) : Unsubscribe(i)
    \/ UpdateGoogleConsentMode(allGranted(now))
    \/ InitializeGoogleConsentMode

SpecFrame == Init /\ [][NextFrame]_vars

\* Every kind of operation of the store on one page at one clock reading
ChannelInputs == {SampleRecord, allDenied(0)}

NextChannel ==
    \/ GetConsent
    \/ HasAnalyticsConsent
    \/ \E consent \in ChannelInputs : SetConsent(consent)
    \/ \E callback \in Callbacks : Subscribe(callback)
    \/ \E i \in 1..Len(handles) : Unsubscribe(i)
    \/ \E consent \in ChannelInputs : UpdateGoogleConsentMode(consent)
    \/ InitializeGoogleConsentMode

SpecChannel == Init /\ [][NextChannel]_vars

\* GTMWithConsent and the GDPRGoogleTagManager it renders. A render takes
\* the state values set so far; the effects of a render run after it, and
\* the next render comes after they have run.
ParentEffect == "GTMWithConsent"
ChildEffect == "GDPRGoogleTagManager"
BannerEffect == "ConsentBanner"

\* cookies of a first visit and of a returning visitor, in a region the
\* middleware marked "1", marked "0", or did not mark
GTMCookies ==
    {geo \o stored :
        geo \in {<<>>} \cup {<<[name |-> GeoCookieName, value |-> v]>> :
                                v \in {<<"1">>, <<"0">>}},
        stored \in {<<>>} \cup
            {<<[name |-> cookieName,
                value |-> encodeURIComponent(JSONstringify(r))]>> :
                r \in {allGranted(0), allDenied(0)}}}

InitGTM ==
    /\ hasWindow = TRUE
    /\ now = 0
    /\ documentCookie \in GTMCookies
    /\ dataLayer = [defined |-> FALSE, items |-> <<>>]
    /\ subscribers = <<>>
    /\ handles = <<>>
    /\ notified = <<>>
    /\ lastOp = [op |-> "new", arg |-> Null, threw |-> FALSE,
                 hadConsent |-> FALSE, hadAnalytics |-> FALSE]
    /\ country = Null
    /\ region = Null
    /\ returned = NoneReturned
    /\ NotMounted

\* a check that any stored record suffices
currentConsentAnalytics_AnyRecord(jar) == getConsent(jar) # Null

\* const currentConsent = consentManager.getConsent();
\* if (currentConsent?.analytics): the stored values are booleans
currentConsentAnalytics(jar) == FieldIsTrue(getConsent(jar), "analytics")

\* <GTMWithConsent waitForConsent={w} geoAware={g} /> is rendered for the
\* first time: useState(waitForConsent), useState(false), useState(false),
\* and the three states of the ConsentBanner it renders
Mount(w, g) ==
    /\ hasWindow
    /\ ~rendered.mounted
    /\ waitForConsent' = w
    /\ geoAware' = g
    /\ shouldWaitForConsent' = w
    /\ shouldLoad' = FALSE
    /\ consentModeInitialized' = FALSE
    /\ rendered' = [mounted |-> TRUE, waitForConsent |-> w,
                    shouldLoad |-> FALSE, consentModeInitialized |-> FALSE,
                    alwaysWaited |-> w]
    /\ pendingEffects' = {ParentEffect, ChildEffect, BannerEffect}
    /\ visible' = FALSE
    /\ showPreferences' = FALSE
    /\ preferences' = initialPreferences(now)
    /\ consentSeen' = [NothingSeen EXCEPT
                         !.inStore = hasAnalyticsConsent(documentCookie)]
    /\ notified' = <<>>
    /\ lastOp' = Op("mount", Null, FALSE)
    /\ returned' = NoneReturned
    /\ UNCHANGED <<hasWindow, now, documentCookie, dataLayer, subscribers,
                   handles, country, region, hook, peer, lastWrite>>

\* the effect of GTMWithConsent
RunParentEffect ==
    /\ ParentEffect \in pendingEffects
    /\ shouldWaitForConsent' =
          (IF geoAware THEN checkGeoConsent(documentCookie) ELSE waitForConsent)
    /\ pendingEffects' = pendingEffects \ {ParentEffect}
    /\ notified' = <<>>
    /\ lastOp' = Op("effect", Some(ParentEffect), FALSE)
    /\ returned' = NoneReturned
    /\ UNCHANGED <<hasWindow, now, documentCookie, dataLayer, subscribers,
                   handles, country, region, waitForConsent, geoAware,
                   shouldLoad, consentModeInitialized, rendered, consentSeen,
                   bannerVars, hook, peer, lastWrite>>

\* an effect that initializes consent mode on every run
initializeOnce_EveryRun(initialized, dl) == initializeGoogleConsentMode(dl)

\* if (!consentModeInitialized) { consentManager.initializeGoogleConsentMode();
\* setConsentModeInitialized(true); }
initializeOnce(initialized, dl) ==
    IF initialized THEN dl ELSE initializeGoogleConsentMode(dl)

\* the effect of GDPRGoogleTagManager, after the cleanup of its previous
\* run; waitForConsent and consentModeInitialized are those of the render
RunChildEffect ==
    /\ ChildEffect \in pendingEffects
    /\ LET cleaned == unsubscribe(subscribers, GTMCallback)
           granted == currentConsentAnalytics(documentCookie)
       IN /\ dataLayer' = initializeOnce(rendered.consentModeInitialized,
                                        dataLayer)
          /\ consentModeInitialized' = TRUE
          /\ IF ~rendered.waitForConsent
             THEN /\ shouldLoad' = TRUE
                  /\ subscribers' = cleaned
                  /\ consentSeen' = consentSeen
             ELSE /\ shouldLoad' = (shouldLoad \/ granted)
                  /\ subscribers' = subscribe(cleaned, GTMCallback)
                  /\ consentSeen' = [consentSeen EXCEPT !.atEffect = @ \/ granted]
    /\ pendingEffects' = pendingEffects \ {ChildEffect}
    /\ notified' = <<>>
    /\ lastOp' = Op("effect", Some(ChildEffect), FALSE)
    /\ returned' = NoneReturned
    /\ UNCHANGED <<hasWindow, now, documentCookie, handles, country, region,
                   waitForConsent, geoAware, shouldWaitForConsent, rendered,
                   bannerVars, hook, peer, lastWrite>>

\* a state was set to a new value: the components render again, and the
\* effect of GDPRGoogleTagManager runs again if one of its dependencies
\* [consentManager, waitForConsent, consentModeInitialized] changed
Render ==
    /\ rendered.mounted
    /\ pendingEffects = {}
    /\ \/ shouldWaitForConsent # rendered.waitForConsent
       \/ shouldLoad # rendered.shouldLoad
       \/ consentModeInitialized # rendered.consentModeInitialized
    /\ rendered' = [mounted |-> TRUE,
                    waitForConsent |-> shouldWaitForConsent,
                    shouldLoad |-> shouldLoad,
                    consentModeInitialized |-> consentModeInitialized,
                    alwaysWaited |-> rendered.alwaysWaited /\ shouldWaitForConsent]
    /\ pendingEffects' =
          (IF \/ shouldWaitForConsent # rendered.waitForConsent
              \/ consentModeInitialized # rendered.consentModeInitialized
           THEN {ChildEffect} ELSE {})
    /\ notified' = <<>>
    /\ lastOp' = Op("render", Null, FALSE)
    /\ returned' = NoneReturned
    /\ UNCHANGED <<hasWindow, now, documentCookie, dataLayer, subscribers,
                   handles, country, region, waitForConsent, geoAware,
                   shouldWaitForConsent, shouldLoad, consentModeInitialized,
                   consentSeen, bannerVars, hook, peer, lastWrite>>

\* GTMWithConsent is rendered again with another waitForConsent prop: its
\* effect runs again (dependencies [geoAware, waitForConsent]), and
\* GDPRGoogleTagManager is rendered again with the states set so far
SetWaitForConsent(w) ==
    /\ rendered.mounted
    /\ pendingEffects = {}
    /\ w # waitForConsent
    /\ waitForConsent' = w
    /\ rendered' = [mounted |-> TRUE,
                    waitForConsent |-> shouldWaitForConsent,
                    shouldLoad |-> shouldLoad,
                    consentModeInitialized |-> consentModeInitialized,
                    alwaysWaited |-> rendered.alwaysWaited /\ shouldWaitForConsent]
    /\ pendingEffects' =
          {ParentEffect} \cup
          (IF \/ shouldWaitForConsent # rendered.waitForConsent
              \/ consentModeInitialized # rendered.consentModeInitialized
           THEN {ChildEffect} ELSE {})
    /\ notified' = <<>>
    /\ lastOp' = Op("props", Null, FALSE)
    /\ returned' = NoneReturned
    /\ UNCHANGED <<hasWindow, now, documentCookie, dataLayer, subscribers,
                   handles, country, region, geoAware, shouldWaitForConsent,
                   shouldLoad, consentModeInitialized, consentSeen,
                   bannerVars, hook, peer, lastWrite>>

\* the effect of ConsentBanner: it reads the store and not its geoAware prop
RunBannerEffect ==
    /\ BannerEffect \in pendingEffects
    /\ visible' = ~hasConsent(documentCookie)
    /\ preferences' =
          (IF hasConsent(documentCookie) /\ getConsent(documentCookie) # Null
           THEN getConsent(documentCookie)[1] ELSE preferences)
    /\ pendingEffects' = pendingEffects \ {BannerEffect}
    /\ notified' = <<>>
    /\ lastOp' = Op("effect", Some(BannerEffect), FALSE)
    /\ returned' = NoneReturned
    /\ UNCHANGED <<hasWindow, now, documentCookie, dataLayer, subscribers,
                   handles, country, region, waitForConsent, geoAware,
                   shouldWaitForConsent, shouldLoad, consentModeInitialized,
                   rendered, consentSeen, showPreferences, hook, peer,
                   lastWrite>>

\* The buttons of the banner exist while it is visible: Reject All,
\* Customize and Accept All in the simple view, the toggles, Back and Save
\* Preferences in the preferences view.
HandleAcceptAll ==
    /\ visible /\ ~showPreferences
    /\ CanPush
    /\ LET w == acceptAll(Effects(documentCookie, dataLayer), subscribers, now)
       IN /\ Apply(w, allGranted(now))
          /\ lastOp' = Op("handleAcceptAll", Null, w.threw)
    /\ visible' = FALSE
    /\ returned' = NoneReturned
    /\ UNCHANGED <<hasWindow, now, subscribers, handles, country, region,
                   gtmProps, showPreferences, preferences, peer>>

HandleRejectAll ==
    /\ visible /\ ~showPreferences
    /\ CanPush
    /\ LET w == rejectAll(Effects(documentCookie, dataLayer), subscribers, now)
       IN /\ Apply(w, allDenied(now))
          /\ lastOp' = Op("handleRejectAll", Null, w.threw)
    /\ visible' = FALSE
    /\ returned' = NoneReturned
    /\ UNCHANGED <<hasWindow, now, subscribers, handles, country, region,
                   gtmProps, showPreferences, preferences, peer>>

HandleSavePreferences ==
    /\ visible /\ showPreferences
    /\ CanPush
    /\ LET w == setConsent(Effects(documentCookie, dataLayer), subscribers,
                           preferences, now)
       IN /\ Apply(w, preferences)
          /\ lastOp' = Op("handleSavePreferences", Some(preferences), w.threw)
    /\ visible' = FALSE
    /\ returned' = NoneReturned
    /\ UNCHANGED <<hasWindow, now, subscribers, handles, country, region,
                   gtmProps, showPreferences, preferences, peer>>

\* setPreferences((prev) => ({ ...prev, [category]: !prev[category] }))
handleToggle(prev, category) ==
    IF category = "necessary" \/ category = "timestamp" THEN prev
    ELSE [prev EXCEPT ![category] = ~prev[category]]

HandleToggle(category) ==
    /\ visible /\ showPreferences
    /\ preferences' = handleToggle(preferences, category)
    /\ notified' = <<>>
    /\ lastOp' = Op("handleToggle", Some(category), FALSE)
    /\ returned' = NoneReturned
    /\ UNCHANGED <<hasWindow, now, documentCookie, dataLayer, subscribers,
                   handles, country, region, gtmProps, gtmNotified, visible,
                   showPreferences, peer>>

\* onClick={() => setShowPreferences(true)} and the Back button
SetShowPreferences(show) ==
    /\ visible /\ showPreferences # show
    /\ showPreferences' = show
    /\ notified' = <<>>
    /\ lastOp' = Op("setShowPreferences", Null, FALSE)
    /\ returned' = NoneReturned
    /\ UNCHANGED <<hasWindow, now, documentCookie, dataLayer, subscribers,
                   handles, country, region, gtmProps, gtmNotified, visible,
                   preferences, peer>>

\* return <GoogleTagManager ... /> instead of null
GTMRendered == rendered.mounted /\ rendered.shouldLoad

NextGTM ==
    \/ \E w \in BOOLEAN, g \in BOOLEAN : Mount(w, g)
    \/ RunParentEffect
    \/ RunChildEffect
    \/ RunBannerEffect
    \/ Render
    \/ AcceptAll
    \/ RejectAll

SpecGTM == InitGTM /\ [][NextGTM]_vars

\* React runs the effects of a render and renders again after a state was
\* set: these steps are not postponed forever. An effect that runs leaves
\* pendingEffects, a render replaces rendered; no other step does either.
EffectRuns(effect) ==
    /\ effect \in pendingEffects
    /\ pendingEffects' = pendingEffects \ {effect}

RenderDue ==
    /\ rendered.mounted
    /\ pendingEffects = {}
    /\ \/ shouldWaitForConsent # rendered.waitForConsent
       \/ shouldLoad # rendered.shouldLoad
       \/ consentModeInitialized # rendered.consentModeInitialized

Rerenders ==
    /\ RenderDue
    /\ rendered' = [mounted |-> TRUE,
                    waitForConsent |-> shouldWaitForConsent,
                    shouldLoad |-> shouldLoad,
                    consentModeInitialized |-> consentModeInitialized,
                    alwaysWaited |-> rendered.alwaysWaited /\ shouldWaitForConsent]

SpecGTMFair ==
    /\ SpecGTM
    /\ \A effect \in {ParentEffect, ChildEffect, BannerEffect} :
          WF_pendingEffects(EffectRuns(effect))
    /\ WF_rendered(Rerenders)

\* The components when the page changes the waitForConsent prop
NextGTMProps ==
    \/ NextGTM
    \/ \E w \in BOOLEAN : SetWaitForConsent(w)

SpecGTMProps == InitGTM /\ [][NextGTMProps]_vars

\* The components and a visitor who uses the buttons of the banner
NextBanner ==
    \/ Tick
    \/ \E w \in BOOLEAN, g \in BOOLEAN : Mount(w, g)
    \/ RunParentEffect
    \/ RunChildEffect
    \/ RunBannerEffect
    \/ Render
    \/ HandleAcceptAll
    \/ HandleRejectAll
    \/ HandleSavePreferences
    \/ \E category \in {"necessary", "analytics", "marketing",
                       "preferences", "timestamp"} : HandleToggle(category)
    \/ \E show \in BOOLEAN : SetShowPreferences(show)

SpecBanner == InitGTM /\ [][NextBanner]_vars

TypeOK ==
    /\ hasWindow \in BOOLEAN
    /\ now \in Times
    /\ Len(ConsentEvents(dataLayer)) <= MaxEvents + ComponentEvents
    /\ Len(handles) <= MaxHandles

-----------------------------------------------------------------------------
(* Properties *)

Stored == getConsent(documentCookie)

IsWrite == lastOp.op \in {"setConsent", "acceptAll", "rejectAll"}

\* the callbacks invoked by the last operation, and how often each
TimesNotified(callback) ==
    Cardinality({j \in 1..Len(notified) : notified[j].callback = callback})

\* some subscribe call registered the callback and its handle was not invoked
IsLive(callback) ==
    \E i \in 1..Len(handles) :
        handles[i].callback = callback /\ ~handles[i].invoked

UpdateEvent(a, m, p) ==
    [event |-> "consent_update",
     consent |-> [ad_storage              |-> IF m THEN "granted" ELSE "denied",
                  ad_user_data            |-> IF m THEN "granted" ELSE "denied",
                  ad_personalization      |-> IF m THEN "granted" ELSE "denied",
                  analytics_storage       |-> IF a THEN "granted" ELSE "denied",
                  functionality_storage   |-> IF p THEN "granted" ELSE "denied",
                  personalization_storage |-> IF p THEN "granted" ELSE "denied",
                  security_storage        |-> "granted"]]

\* C1: the record getConsent returns (the persisted record) and every record
\* passed to a subscriber has necessary = true, whatever setConsent was given.
C1_NecessaryAlwaysTrue ==
    /\ Stored # Null =>
          "necessary" \in DOMAIN Stored[1] /\ Stored[1].necessary = TRUE
    /\ \A j \in 1..Len(notified) : notified[j].consent.necessary = TRUE

C1_Witness ==
    /\ lastOp.op = "setConsent"
    /\ lastOp.arg[1].necessary = FALSE
    /\ notified # <<>>
    /\ Stored # Null

\* C2: in a client context, getConsent() right after setConsent(r) returns r's
\* analytics, marketing and preferences, necessary = true and the time of the
\* write as timestamp (the clock reading of the call), not r's timestamp.
C2_ReadAfterWrite ==
    (hasWindow /\ lastOp.op = "setConsent") =>
        LET r == lastOp.arg[1]
        IN Stored = Some([necessary   |-> TRUE,
                          analytics   |-> r.analytics,
                          marketing   |-> r.marketing,
                          preferences |-> r.preferences,
                          timestamp   |-> now])

C2_Witness ==
    /\ hasWindow
    /\ lastOp.op = "setConsent"
    /\ lastOp.arg[1].timestamp # now
    /\ lastOp.arg[1].necessary = FALSE
    /\ Stored # Null

\* C3: setConsent(r) replaces the stored record: every category of the new
\* record is r's, whatever the record stored before; a category that was
\* true before and is false in r is false afterwards.
C3_FullReplacement ==
    [][(hasWindow /\ lastOp'.op = "setConsent") =>
          LET r == lastOp'.arg[1]
              old == getConsent(documentCookie)
              new == getConsent(documentCookie')
          IN /\ new # Null
             /\ DOMAIN new[1] = Categories \cup {"necessary", "timestamp"}
             /\ \A k \in Categories :
                   /\ new[1][k] = r[k]
                   /\ (FieldIsTrue(old, k) /\ ~r[k]) => ~new[1][k]
             /\ new[1].timestamp = now']_vars

C3_Witness ==
    /\ hasWindow
    /\ lastOp.op = "setConsent"
    /\ lastOp.hadAnalytics
    /\ ~lastOp.arg[1].analytics
    /\ Stored # Null
    /\ ~Stored[1].analytics

\* C4: in a client context, after rejectAll() getConsent() has necessary =
\* true and analytics, marketing and preferences false, whatever was stored
\* before; acceptAll() stores, signals and notifies what setConsent does for
\* a record with the three categories true.
C4_RejectAllAcceptAll ==
    /\ (hasWindow /\ lastOp.op = "rejectAll") =>
          /\ Stored = Some([necessary |-> TRUE, analytics |-> FALSE,
                            marketing |-> FALSE, preferences |-> FALSE,
                            timestamp |-> now])
          /\ LastEvent(dataLayer) = Some(UpdateEvent(FALSE, FALSE, FALSE))
    /\ (hasWindow /\ lastOp.op = "acceptAll") =>
          /\ Stored = Some([necessary |-> TRUE, analytics |-> TRUE,
                            marketing |-> TRUE, preferences |-> TRUE,
                            timestamp |-> now])
          /\ LastEvent(dataLayer) = Some(UpdateEvent(TRUE, TRUE, TRUE))

C4_Witness ==
    /\ hasWindow
    /\ lastOp.op = "rejectAll"
    /\ lastOp.hadAnalytics
    /\ Stored # Null

\* C5: a write invokes every callback with a live registration exactly once,
\* with the record it wrote, and no callback without one; subscribe invokes
\* nothing.
C5_SubscribersNotifiedOnce ==
    /\ lastOp.op = "subscribe" => notified = <<>>
    /\ (hasWindow /\ IsWrite) =>
          \A callback \in Callbacks :
              /\ TimesNotified(callback) = (IF IsLive(callback) THEN 1 ELSE 0)
              /\ \A j \in 1..Len(notified) : Some(notified[j].consent) = Stored

\* C6: an unsubscribe handle removes only its own registration: the callback
\* of every handle that was not invoked is still in the subscriber set.
C6_HandleRemovesOnlyItsRegistration ==
    \A i \in 1..Len(handles) :
        ~handles[i].invoked =>
            \E j \in 1..Len(subscribers) : subscribers[j] = handles[i].callback

\* C7: a throwing subscriber does not abort a write: the record is stored,
\* consent_update is pushed, every subscriber is invoked and no exception
\* reaches the caller.
C7_ThrowingSubscriberIsolated ==
    (hasWindow /\ IsWrite) =>
        /\ Stored # Null
        /\ LastEvent(dataLayer) # Null
        /\ LastEvent(dataLayer)[1].event = "consent_update"
        /\ \A j \in 1..Len(subscribers) : TimesNotified(subscribers[j]) = 1
        /\ ~lastOp.threw

\* C8: when a subscriber callback runs, getConsent() already returns the
\* record it is passed and the consent_update of that record is the last
\* event of the dataLayer.
C8_PersistEmitNotify ==
    \A j \in 1..Len(notified) :
        LET c == notified[j].consent
        IN /\ notified[j].seenConsent = Some(c)
           /\ notified[j].seenEvent =
                 Some(UpdateEvent(c.analytics, c.marketing, c.preferences))

C8_Witness ==
    /\ lastOp.op = "setConsent"
    /\ Len(notified) = 2
    /\ Len(dataLayer.items) >= 2

\* C9: in a client context, the consent_update pushed by setConsent and by
\* updateGoogleConsentMode grants ad_storage, ad_user_data and
\* ad_personalization iff marketing, analytics_storage iff analytics,
\* functionality_storage and personalization_storage iff preferences, denies
\* them otherwise and always grants security_storage.
C9_SignalingPayload ==
    (hasWindow /\ lastOp.op \in {"setConsent", "updateGoogleConsentMode"}) =>
        LET r == lastOp.arg[1]
            e == LastEvent(dataLayer)
        IN /\ e # Null
           /\ e[1].event = "consent_update"
           /\ \A ch \in DOMAIN e[1].consent : e[1].consent[ch] \in {"granted", "denied"}
           /\ e[1].consent.ad_storage = "granted" <=> r.marketing
           /\ e[1].consent.ad_user_data = "granted" <=> r.marketing
           /\ e[1].consent.ad_personalization = "granted" <=> r.marketing
           /\ e[1].consent.analytics_storage = "granted" <=> r.analytics
           /\ e[1].consent.functionality_storage = "granted" <=> r.preferences
           /\ e[1].consent.personalization_storage = "granted" <=> r.preferences
           /\ e[1].consent.security_storage = "granted"

C9_Witness ==
    /\ hasWindow
    /\ lastOp.op = "updateGoogleConsentMode"
    /\ lastOp.arg[1].analytics
    /\ ~lastOp.arg[1].marketing
    /\ lastOp.arg[1].preferences
    /\ LastEvent(dataLayer)[1].consent.ad_storage = "denied"

\* C10: in a client context, initializeGoogleConsentMode appends exactly one
\* event, a consent_default that denies the six channels and grants
\* security_storage, whatever record is stored.
C10_DefaultSignal ==
    [][(hasWindow /\ lastOp'.op = "initializeGoogleConsentMode") =>
          /\ dataLayer'.defined
          /\ dataLayer'.items =
                Append(dataLayer.items,
                       [event |-> "consent_default",
                        consent |-> [ad_storage              |-> "denied",
                                     ad_user_data            |-> "denied",
                                     ad_personalization      |-> "denied",
                                     analytics_storage       |-> "denied",
                                     functionality_storage   |-> "denied",
                                     personalization_storage |-> "denied",
                                     security_storage        |-> "granted"]])]_vars

C10_Witness ==
    /\ hasWindow
    /\ lastOp.op = "initializeGoogleConsentMode"
    /\ FieldIsTrue(Stored, "analytics")
    /\ Len(dataLayer.items) = 2

\* C11: in a client context with no persisted record and no consent event in
\* the dataLayer, hasConsent() is false, and a single acceptAll() makes
\* hasConsent() and hasAnalyticsConsent() true and leaves exactly one
\* consent event in the dataLayer, a consent_update that grants all six
\* channels.
C11_FreshAcceptAll ==
    [][(/\ hasWindow
        /\ FindCookie(documentCookie, cookieName) = 0
        /\ ConsentEvents(dataLayer) = <<>>) =>
          /\ ~hasConsent(documentCookie)
          /\ lastOp'.op = "acceptAll" =>
                /\ hasConsent(documentCookie')
                /\ hasAnalyticsConsent(documentCookie')
                /\ ConsentEvents(dataLayer') =
                      <<UpdateEvent(TRUE, TRUE, TRUE)>>
                /\ \A ch \in {"ad_storage", "ad_user_data", "ad_personalization",
                                "analytics_storage", "functionality_storage",
                                "personalization_storage"} :
                       LastEvent(dataLayer')[1].consent[ch] = "granted"]_vars

C11_Witness ==
    /\ hasWindow
    /\ lastOp.op = "acceptAll"
    /\ ~lastOp.hadConsent
    /\ hasAnalyticsConsent(documentCookie)
    /\ ConsentEvents(dataLayer) = <<UpdateEvent(TRUE, TRUE, TRUE)>>

\* the value of the consent cookie the browser holds, if there is one
ConsentCookieValue ==
    IF FindCookie(documentCookie, cookieName) = 0 THEN Null
    ELSE Some(documentCookie[FindCookie(documentCookie, cookieName)].value)

\* C12: when the consent cookie exists and its value cannot be decoded or
\* parsed (empty, truncated, invalid percent-encoding), getConsent() returns
\* null as it does without a cookie, raises nothing, and leaves the cookies,
\* the dataLayer and the subscribers as they are.
C12_MalformedIsAbsent ==
    [][(/\ returned'.op = "getConsent"
        /\ ConsentCookieValue # Null
        /\ ConsentCookieValue[1] \in MalformedValues) =>
          /\ returned'.consent = Null
          /\ returned'.consent = getConsent(<<>>)
          /\ UNCHANGED <<documentCookie, dataLayer, subscribers>>]_vars

C12_Witness ==
    /\ returned.op = "getConsent"
    /\ returned.consent = Null
    /\ ConsentCookieValue # Null
    /\ Len(ConsentCookieValue[1]) = Len(SampleValue) - 1
    /\ subscribers # <<>>

C14_NonClientNoOps ==
    ~hasWindow =>
        /\ documentCookie = <<>>
        /\ dataLayer = [defined |-> FALSE, items |-> <<>>]
        /\ notified = <<>>
        /\ ~lastOp.threw
        /\ returned.op = "getConsent" => returned.consent = Null
        /\ returned.op = "hasConsent" => returned.result = FALSE

C14_Witness ==
    /\ ~hasWindow
    /\ lastOp.op = "setConsent"
    /\ lastOp.arg[1].analytics
    /\ subscribers = <<"cbThrow", "cbA">>

\* C15: isRegulatedRegion(country, region) is true iff country is absent or
\* empty, or is in the GDPR, LGPD, PIPEDA or POPIA list, or a sub-national
\* rule has that country and lists region (an absent region counts as "");
\* (undefined, undefined), ("DE", undefined) and ("US", "CA") give true,
\* ("US", "TX"), ("US", undefined) and ("ZZ", undefined) give false.
C15_IsRegulatedRegion ==
    returned.op = "isRegulatedRegion" =>
        LET flat == {"AT", "BE", "BG", "HR", "CY", "CZ", "DK", "EE", "FI", "FR",
                     "DE", "GR", "HU", "IE", "IT", "LV", "LT", "LU", "MT", "NL",
                     "PL", "PT", "RO", "SK", "SI", "ES", "SE", "GB",
                     "BR", "CA", "ZA"}
            rules == {[country |-> "US", regions |-> {"CA"}]}
            reg == IF region = Null THEN "" ELSE region[1]
            expected ==
                \/ country = Null
                \/ country = <<"">>
                \/ country # Null /\ country[1] \in flat
                \/ \E rule \in rules :
                      /\ country # Null
                      /\ country[1] = rule.country
                      /\ reg \in rule.regions
        IN /\ returned.result \in BOOLEAN
           /\ returned.result = expected
           /\ (country = Null /\ region = Null) => returned.result
           /\ (country = <<"DE">> /\ region = Null) => returned.result
           /\ (country = <<"US">> /\ region = <<"CA">>) => returned.result
           /\ (country = <<"US">> /\ region = <<"TX">>) => ~returned.result
           /\ (country = <<"US">> /\ region = Null) => ~returned.result
           /\ (country = <<"ZZ">> /\ region = Null) => ~returned.result

C15_Witness ==
    /\ returned.op = "isRegulatedRegion"
    /\ country = <<"US">>
    /\ region = <<"TX">>
    /\ ~returned.result

\* the value of the geo-needs-consent cookie, if there is one
GeoSignal ==
    IF FindCookie(documentCookie, GeoCookieName) = 0 THEN Null
    ELSE Some(documentCookie[FindCookie(documentCookie, GeoCookieName)].value)

\* C16: checkGeoConsent() is true when the geo-needs-consent signal is
\* absent, false when it is "0", and true for every other value.
C16_PrivacyFirstSignal ==
    returned.op = "checkGeoConsent" =>
        returned.result = (GeoSignal # Some(<<"0">>))

\* C17: the dataLayer is append-only under every operation of the store: its
\* items before a call are a prefix of its items after it and an existing
\* array is kept; in a client context setConsent, acceptAll, rejectAll and
\* updateGoogleConsentMode append exactly one consent_update,
\* initializeGoogleConsentMode exactly one consent_default; getConsent, the
\* has* reads, subscribe and unsubscribe append nothing.
C17_AppendOnly ==
    [][LET old == dataLayer.items
           new == dataLayer'.items
           called == IF returned'.op = "none" THEN lastOp'.op ELSE returned'.op
           appended == Len(new) - Len(old)
       IN /\ Len(new) >= Len(old)
          /\ \A i \in 1..Len(old) : new[i] = old[i]
          /\ dataLayer.defined => dataLayer'.defined
          /\ (/\ hasWindow
              /\ called \in {"setConsent", "acceptAll", "rejectAll",
                              "updateGoogleConsentMode"}) =>
                /\ appended = 1
                /\ new[Len(new)].event = "consent_update"
          /\ (hasWindow /\ called = "initializeGoogleConsentMode") =>
                /\ appended = 1
                /\ new[Len(new)].event = "consent_default"
          /\ called \in {"getConsent", "hasConsent", "hasAnalyticsConsent",
                          "hasMarketingConsent", "hasPreferencesConsent",
                          "subscribe", "unsubscribe"} =>
                appended = 0]_vars

C17_Witness ==
    /\ hasWindow
    /\ lastOp.op = "updateGoogleConsentMode"
    /\ Len(dataLayer.items) = 2
    /\ dataLayer.items[1].event = "gtm.js"
    /\ dataLayer.items[2].event = "consent_update"

\* C18: invoking an unsubscribe handle again after its first invocation
\* changes nothing: no exception, no other registration removed, and a
\* registration of the same callback made by a later subscribe call stays.
C18_RepeatedUnsubscribeNoOp ==
    [][(lastOp'.op = "unsubscribe" /\ handles' = handles) =>
          /\ subscribers' = subscribers
          /\ ~lastOp'.threw]_vars

\* C19: while GDPRGoogleTagManager has been rendered with waitForConsent
\* true only, the GTM script is rendered only after analytics consent was
\* granted: the stored record had analytics = true when the effect ran, or a
\* write with analytics = true was notified to the component; with a store
\* that has not held analytics = true the script is not rendered.
C19_GTMOnlyAfterConsent ==
    (rendered.alwaysWaited /\ GTMRendered) =>
        /\ consentSeen.atEffect \/ consentSeen.notified
        /\ consentSeen.inStore

C19_Witness ==
    /\ rendered.alwaysWaited
    /\ GTMRendered
    /\ consentSeen.notified
    /\ ~consentSeen.atEffect
    /\ lastOp.op = "render"

\* the region is regulated: the geo-needs-consent cookie is "1" or absent
RegulatedRegion == GeoSignal = Null \/ GeoSignal = Some(<<"1">>)

\* C20: with geoAware = true in a regulated region the GTM script is not
\* rendered before analytics consent is granted, whatever the waitForConsent
\* prop and whichever effect runs first.
C20_GeoAwareWaitsForConsent ==
    (geoAware /\ RegulatedRegion /\ GTMRendered) => consentSeen.inStore

\* C21: with geoAware = true, the geo-needs-consent cookie "0" and no stored
\* consent, the visible state of ConsentBanner is never true.
C21_NoBannerOutsideRegulatedRegion ==
    (/\ rendered.mounted
     /\ geoAware
     /\ GeoSignal = Some(<<"0">>)
     /\ ~hasConsent(documentCookie)) => ~visible

\* the components have nothing left to do: no effect is pending and no
\* state differs from what was rendered
Settled ==
    /\ rendered.mounted
    /\ pendingEffects = {}
    /\ ~RenderDue

\* C22: with geoAware = true and the geo-needs-consent cookie "0", the GTM
\* script gets rendered after the mount, whatever the waitForConsent prop
\* and without any consent write: once the effects and renders that follow
\* the mount are done the script is rendered, and they do get done.
C22_GeoAwareLoadsImmediately ==
    LET unregulated == /\ rendered.mounted
                       /\ geoAware
                       /\ GeoSignal = Some(<<"0">>)
    IN /\ []((unregulated /\ Settled) => GTMRendered)
       /\ [](unregulated => <>GTMRendered)

C22_Witness ==
    /\ geoAware
    /\ waitForConsent
    /\ GeoSignal = Some(<<"0">>)
    /\ Settled
    /\ GTMRendered
    /\ lastWrite = Null
    /\ ~hasConsent(documentCookie)

\* the consent_default events in the dataLayer
DefaultEvents ==
    SelectSeq(dataLayer.items, LAMBDA e : e.event = "consent_default")

\* C23: a mounted GDPRGoogleTagManager appends consent_default once: the
\* event is in the dataLayer when shouldLoad is set and when the GTM script
\* is rendered, and the re-runs of the effect (after consentModeInitialized
\* or waitForConsent changed) append no second one.
C23_DefaultOnceBeforeGTM ==
    /\ Len(DefaultEvents) <= 1
    /\ (rendered.mounted /\ (shouldLoad \/ GTMRendered \/ consentModeInitialized))
          => Len(DefaultEvents) = 1
    /\ (Len(DefaultEvents) = 1) =>
          DefaultEvents[1].consent.analytics_storage = "denied"

C23_Witness ==
    /\ lastOp.op = "effect"
    /\ lastOp.arg = Some(ChildEffect)
    /\ rendered.consentModeInitialized
    /\ lastWrite # Null
    /\ GTMRendered
    /\ Len(DefaultEvents) = 1

\* C24: on a first visit the banner is opt-in: when it is mounted the
\* analytics, marketing and preferences toggles are off and stay as they are
\* until a toggle is used; handleToggle flips the category it is given and
\* nothing else, and changes nothing for necessary and timestamp; Save
\* Preferences persists the three toggles as they are (all false when none
\* was used), with necessary = true.
C24_OptInToggles ==
    [][LET called == lastOp'.op
           firstVisit == ~hasConsent(documentCookie)
       IN /\ called = "mount" =>
                /\ preferences'.necessary
                /\ \A k \in Categories : ~preferences'[k]
          /\ (firstVisit /\ called \notin {"mount", "handleToggle"}) =>
                preferences' = preferences
          /\ called = "handleToggle" =>
                LET category == lastOp'.arg[1]
                IN /\ \A k \in DOMAIN preferences \ {category} :
                         preferences'[k] = preferences[k]
                   /\ category \in Categories =>
                         preferences'[category] = ~preferences[category]
                   /\ category \in {"necessary", "timestamp"} =>
                         preferences' = preferences
          /\ called = "handleSavePreferences" =>
                /\ getConsent(documentCookie') # Null
                /\ getConsent(documentCookie')[1] =
                      [necessary |-> TRUE,
                       analytics |-> preferences.analytics,
                       marketing |-> preferences.marketing,
                       preferences |-> preferences.preferences,
                       timestamp |-> now]
                /\ ~visible']_vars

C24_Witness ==
    /\ lastOp.op = "handleSavePreferences"
    /\ ~lastOp.hadConsent
    /\ Stored = Some(allDenied(now))
    /\ preferences.timestamp # now
    /\ ~visible

\* the last consent_default or consent_update of the dataLayer, if any
LastConsentEvent ==
    IF ConsentEvents(dataLayer) = <<>> THEN Null
    ELSE Some(ConsentEvents(dataLayer)[Len(ConsentEvents(dataLayer))])

\* C25: when GDPRGoogleTagManager, rendered with waitForConsent = true
\* only, renders the GTM script, the last consent event of the dataLayer
\* has analytics_storage = granted, also for a returning visitor whose
\* stored record has analytics = true at the mount.
C25_GrantedSignalWhenRendered ==
    (lastOp.op = "render" /\ GTMRendered /\ rendered.alwaysWaited) =>
        /\ LastConsentEvent # Null
        /\ LastConsentEvent[1].consent.analytics_storage = "granted"

\* C26: writes are last-write-wins: however the setConsent calls of two
\* tabs that share the cookie interleave, getConsent() of either returns
\* the whole record of the write that reached the cookie last (its three
\* categories, necessary = true, the time of that call), never a mixture of
\* two writes.
C26_LastWriteWins ==
    LET last == [necessary   |-> TRUE,
                 analytics   |-> lastWrite[1].analytics,
                 marketing   |-> lastWrite[1].marketing,
                 preferences |-> lastWrite[1].preferences,
                 timestamp   |-> lastWrite[1].time]
    IN /\ lastWrite = Null => Stored = Null
       /\ lastWrite # Null =>
             /\ Stored = Some(last)
             /\ returned.op \in {"getConsent", "peer.getConsent"} =>
                   returned.consent = Some(last)

C26_Witness ==
    /\ returned.op = "getConsent"
    /\ lastWrite # Null
    /\ lastWrite[1].tab = "peer"
    /\ lastWrite[1].time < now
    /\ lastOp.op = "setConsent"
    /\ lastOp.arg[1].analytics
    /\ returned.consent # Null
    /\ ~returned.consent[1].analytics

\* C27: getConsent, hasConsent, hasAnalyticsConsent, hasMarketingConsent,
\* hasPreferencesConsent, subscribe, unsubscribe, updateGoogleConsentMode
\* and initializeGoogleConsentMode leave the cookies and the record
\* getConsent() returns as they are; only subscribe and unsubscribe change
\* the subscriber set.
C27_OnlySetConsentPersists ==
    [][LET called == IF returned'.op = "none" THEN lastOp'.op ELSE returned'.op
       IN /\ called \in {"getConsent", "hasConsent", "hasAnalyticsConsent",
                          "hasMarketingConsent", "hasPreferencesConsent",
                          "subscribe", "unsubscribe",
                          "updateGoogleConsentMode",
                          "initializeGoogleConsentMode"} =>
                /\ documentCookie' = documentCookie
                /\ getConsent(documentCookie') = getConsent(documentCookie)
          /\ called \notin {"subscribe", "unsubscribe"} =>
                subscribers' = subscribers]_vars

C27_Witness ==
    /\ hasWindow
    /\ lastOp.op = "updateGoogleConsentMode"
    /\ lastOp.arg[1].marketing
    /\ LastEvent(dataLayer) = Some(UpdateEvent(TRUE, TRUE, TRUE))
    /\ Stored = Null
    /\ subscribers # <<>>

\* C28: updateConsent(p) persists a record in which each of analytics,
\* marketing and preferences is p's value when p has the field (false
\* included), otherwise the value of the stored record, otherwise false;
\* necessary is true and the timestamp is the time of the call. Categories
\* that p does not name are kept.
C28_UpdateConsentMerges ==
    [][lastOp'.op = "updateConsent" =>
          LET p == lastOp'.arg[1]
              old == getConsent(documentCookie)
              new == getConsent(documentCookie')
              Expected(k) ==
                  IF k \in DOMAIN p THEN p[k]
                  ELSE IF old # Null /\ k \in DOMAIN old[1] THEN old[1][k]
                  ELSE FALSE
          IN /\ new # Null
             /\ DOMAIN new[1] = Categories \cup {"necessary", "timestamp"}
             /\ \A k \in Categories : new[1][k] = Expected(k)
             /\ new[1].necessary = TRUE
             /\ new[1].timestamp = now']_vars

C28_Witness ==
    /\ lastOp.op = "updateConsent"
    /\ lastOp.hadAnalytics
    /\ lastOp.arg[1] = [analytics |-> FALSE]
    /\ Stored = Some([SampleRecord EXCEPT !.analytics = FALSE, !.timestamp = now])
    /\ now > 0

ManagerAnswers ==
    [consent |-> getConsent(documentCookie),
     hasConsent |-> hasConsent(documentCookie),
     hasAnalyticsConsent |-> hasAnalyticsConsent(documentCookie),
     hasMarketingConsent |-> hasMarketingConsent(documentCookie),
     hasPreferencesConsent |-> hasPreferencesConsent(documentCookie)]

\* C30: after the mount effect of useConsent has run, and after any writes
\* made through the same manager, the hook's consent is the record
\* getConsent() returns and its hasConsent, hasAnalyticsConsent,
\* hasMarketingConsent and hasPreferencesConsent are the manager's.
C30_HookMirrorsManager ==
    hook.subscribed => useConsentReturn(hook.consent) = ManagerAnswers

====
